---- MODULE Spec2Model ----
(***************************************************************************)
(* Model of disk_analyzer.py: the recursive, cancellable directory scanner *)
(* (DiskScanner), the background session that runs it (ScannerWorker, a    *)
(* QThread whose signals are queued to the GUI thread), the application    *)
(* handlers that start sessions and consume their events, and the treemap  *)
(* layout (TreemapWidget).                                                 *)
(*                                                                         *)
(* A path is a number: RootPath is the directory the file system below is  *)
(* rooted at, 1..n are the entries under it, MissingPath names nothing.    *)
(* Floating point coordinates of the layout are kept exact: every          *)
(* coordinate of a rectangle is stored multiplied by the total_size the    *)
(* layout call divides by (field den).                                     *)
(***************************************************************************)
EXTENDS Integers, Sequences, FiniteSets, TLC

\* ------------------------------------------------------------------ bounds
MaxEntries == 2
MaxSessions == 2
FileSizes == {1, 3}
WidgetSizes == {<<144, 54>>, <<54, 144>>, <<144, 84>>, <<44, 60>>, <<47, 46>>}

\* --------------------------------------------------------------- constants
RootPath == 0
MissingPath == -1
padding == 20
margin == 4
spacing == 5
labelMinWidth == 40
labelMinHeight == 30

\* ------------------------------------------------------------- file system
\* One directory entry: what is_file()/is_dir() answer for it, the st_size
\* stat() reports, and the call that raises PermissionError/OSError on it:
\*   "type" : the item.is_file() check itself raises,
\*   "stat" : item.stat() raises (regular files),
\*   "list" : iterdir() on it raises (directories).
EntryKinds ==
    {[type |-> "file", size |-> z, err |-> "none"] : z \in FileSizes}
    \cup {[type |-> "file",  size |-> 0, err |-> "stat"],
          [type |-> "dir",   size |-> 0, err |-> "none"],
          [type |-> "dir",   size |-> 0, err |-> "list"],
          [type |-> "other", size |-> 0, err |-> "none"],
          [type |-> "other", size |-> 0, err |-> "type"]}

Entry(par, k) == [parent |-> par, type |-> k.type, size |-> k.size, err |-> k.err]

\* Entry i lives in directory parent (RootPath or an earlier listable
\* directory); a directory lists its entries in increasing number.
WellFormed(rootOk, ent) ==
    /\ (~rootOk) => Len(ent) = 0
    /\ \A i \in 1..Len(ent) :
          /\ ent[i].parent < i
          /\ ent[i].parent # RootPath =>
                /\ ent[ent[i].parent].type = "dir"
                /\ ent[ent[i].parent].err = "none"

FileSystems ==
    UNION { { [rootOk |-> ok, ent |-> [i \in 1..n |-> Entry(c[i][1], c[i][2])]] :
                c \in { d \in [1..n -> (0..(MaxEntries - 1)) \X EntryKinds] :
                          WellFormed(ok, [i \in 1..n |-> Entry(d[i][1], d[i][2])]) } }
            : <<ok, n>> \in BOOLEAN \X (0..MaxEntries) }

\* --------------------------------------------------------------- FolderInfo
FolderInfo(path, size, children) == [path |-> path, size |-> size, children |-> children]

None == <<>>
Some(x) == <<x>>

RECURSIVE total_size(_)
\* a total that adds the children's own sizes instead of their totals
total_size_shallow(node) ==
    LET RECURSIVE sum(_, _)
        sum(cs, acc) == IF Len(cs) = 0 THEN acc
                        ELSE sum(Tail(cs), acc + Head(cs).size)
    IN  node.size + sum(node.children, 0)

total_size(node) ==
    LET RECURSIVE sum(_, _)
        sum(cs, acc) == IF Len(cs) = 0 THEN acc
                        ELSE sum(Tail(cs), acc + total_size(Head(cs)))
    IN  node.size + sum(node.children, 0)

\* ------------------------------------------------------------------- state
VARIABLES
    fs,               \* the file system scanned (never changes)
    nWorkers,         \* ScannerWorker objects created so far
    pc,               \* per worker: position of its thread
    wpath,            \* per worker: ScannerWorker.path
    cancelled,        \* per worker: scanner.cancelled
    stack,            \* per worker: active _scan_folder frames, innermost last
    result,           \* per worker: value DiskScanner.scan returned
    visited,          \* per worker: paths _scan_folder has been called on
    emitted,          \* per worker: signals emitted so far, in order
    queue,            \* queued signal deliveries awaiting the GUI thread
    gui,              \* GUI thread: "idle" or "waiting" (inside wait())
    pending,          \* path argument of the _scan_folder call in progress
    scanner_worker,   \* DiskAnalyzerApp.scanner_worker (0: None)
    current_folder,   \* DiskAnalyzerApp.current_folder
    btnEnabled,       \* select_folder_btn.isEnabled()
    progressVisible,  \* progress_bar.isVisible()
    status,           \* status bar message
    viewSize,         \* <<width(), height()>> of the treemap widget
    tm_folder_info,   \* TreemapWidget.folder_info
    scene             \* rectangles in the treemap scene, in creation order

workerVars == <<nWorkers, pc, wpath, cancelled, stack, result, visited, emitted>>
appVars == <<gui, pending, scanner_worker, current_folder, btnEnabled,
             progressVisible, status>>
mapVars == <<viewSize, tm_folder_info, scene>>
vars == <<fs, workerVars, queue, appVars, mapVars>>

Workers == 1..MaxSessions

\* ------------------------------------------------------ file system queries
\* Path.exists()
Exists_always(p) == TRUE

Exists(p) == p = RootPath \/ p \in 1..Len(fs.ent)

\* iterdir() succeeds on p (a missing path or a non-directory raises OSError)
Listable(p) ==
    IF p = RootPath THEN fs.rootOk
    ELSE /\ p \in 1..Len(fs.ent)
         /\ fs.ent[p].type = "dir"
         /\ fs.ent[p].err = "none"

\* the items path.iterdir() yields, in order
Listing(p) ==
    SelectSeq([i \in 1..Len(fs.ent) |-> i], LAMBDA i : fs.ent[i].parent = p)

\* ------------------------------------------------- DiskScanner._scan_folder
\* the node returned at once when the cancellation flag is seen set
CancelledNode_sized(path) == FolderInfo(path, 1, <<>>)

CancelledNode(path) == FolderInfo(path, 0, <<>>)

\* the node the outer except clause returns
ErrorNode(path) == FolderInfo(path, 0, <<>>)

\* children.append(node)
AppendChild_front(children, node) == <<node>> \o children

AppendChild(children, node) == Append(children, node)

Frame(path) == [path |-> path, todo |-> Listing(path), children |-> <<>>]

\* a call returns node: to the calling frame, or out of scan() when there is none
Return(stk, node) ==
    IF Len(stk) = 0
    THEN [stack |-> stk, result |-> Some(node), called |-> {}]
    ELSE [stack |-> [stk EXCEPT ![Len(stk)].children = AppendChild(@, node)],
          result |-> None, called |-> {}]

\* entry of _scan_folder(path): the flag is read here and only here
Call(stk, path, flag) ==
    [called |-> {path}] @@
    ( IF flag THEN Return(stk, CancelledNode(path))
      ELSE IF ~Listable(path) THEN Return(stk, ErrorNode(path))
      ELSE [stack |-> Append(stk, Frame(path)), result |-> None, called |-> {}] )

Pop(stk) == SubSeq(stk, 1, Len(stk) - 1)

\* one iteration of the for loop of the innermost frame, or its return
Iterate(stk, flag) ==
    LET f == stk[Len(stk)]
    IN  IF Len(f.todo) = 0
        THEN Return(Pop(stk), FolderInfo(f.path, 0, f.children))
        ELSE LET item == Head(f.todo)
                 e == fs.ent[item]
                 rest == [stk EXCEPT ![Len(stk)].todo = Tail(@)]
             IN  CASE e.err = "type" -> Return(Pop(stk), ErrorNode(f.path))
                   [] e.err # "type" /\ e.type = "file" ->
                        IF e.err = "stat"
                        THEN [stack |-> rest, result |-> None, called |-> {}]
                        ELSE Return(rest, FolderInfo(item, e.size, <<>>))
                   [] e.err # "type" /\ e.type = "dir" -> Call(rest, item, flag)
                   [] OTHER -> [stack |-> rest, result |-> None, called |-> {}]

\* ----------------------------------------------------------- ScannerWorker
\* bool(result) in ScannerWorker.run
Truthy_nonempty(res) == res # None /\ Len(res[1].children) > 0

Truthy(res) == res # None

\* the terminal signal(s) run() emits for a scan result
TerminalSignals_both(res) ==
    IF Truthy(res) THEN <<"finished", "error">> ELSE <<"error">>

TerminalSignals(res) ==
    IF Truthy(res) THEN <<"finished">> ELSE <<"error">>

Signal(w, sig, arg) == [worker |-> w, sig |-> sig, arg |-> arg]

RECURSIVE Deliveries(_, _, _)
Deliveries(w, sigs, res) ==
    IF Len(sigs) = 0 THEN <<>>
    ELSE <<Signal(w, Head(sigs), IF Head(sigs) = "finished" THEN res ELSE None)>>
         \o Deliveries(w, Tail(sigs), res)

\* QThread.isRunning()
isRunning(w) == pc[w] \in {"start", "scan", "walk", "emit", "exit"}

\* QThread.wait() returns
WaitOver_nowait(w) == TRUE

WaitOver(w) == ~isRunning(w)

\* run(): self.progress.emit(...)
RunProgress(w) ==
    /\ pc[w] = "start"
    /\ pc' = [pc EXCEPT ![w] = "scan"]
    /\ emitted' = [emitted EXCEPT ![w] = Append(@, "progress")]
    /\ queue' = Append(queue, Signal(w, "progress", None))
    /\ UNCHANGED <<fs, nWorkers, wpath, cancelled, stack, result, visited, appVars,
                   mapVars>>

\* DiskScanner.scan up to the entry of the root _scan_folder call
ScanRoot(w) ==
    /\ pc[w] = "scan"
    /\ IF ~Exists(wpath[w])
       THEN /\ result' = [result EXCEPT ![w] = None]
            /\ pc' = [pc EXCEPT ![w] = "emit"]
            /\ UNCHANGED <<stack, visited>>
       ELSE LET r == Call(<<>>, wpath[w], cancelled[w])
            IN  /\ stack' = [stack EXCEPT ![w] = r.stack]
                /\ result' = [result EXCEPT ![w] = r.result]
                /\ visited' = [visited EXCEPT ![w] = @ \cup r.called]
                /\ pc' = [pc EXCEPT ![w] = IF Len(r.stack) = 0 THEN "emit" ELSE "walk"]
    /\ UNCHANGED <<fs, nWorkers, wpath, cancelled, emitted, queue, appVars, mapVars>>

\* one loop iteration (or return) of the innermost _scan_folder frame
ScanStep(w) ==
    /\ pc[w] = "walk"
    /\ LET r == Iterate(stack[w], cancelled[w])
       IN  /\ stack' = [stack EXCEPT ![w] = r.stack]
           /\ result' = [result EXCEPT ![w] = r.result]
           /\ visited' = [visited EXCEPT ![w] = @ \cup r.called]
           /\ pc' = [pc EXCEPT ![w] = IF Len(r.stack) = 0 THEN "emit" ELSE "walk"]
    /\ UNCHANGED <<fs, nWorkers, wpath, cancelled, emitted, queue, appVars, mapVars>>

\* run(): the if/else that emits finished or error
RunEmit(w) ==
    /\ pc[w] = "emit"
    /\ LET sigs == TerminalSignals(result[w])
       IN  /\ emitted' = [emitted EXCEPT ![w] = @ \o sigs]
           /\ queue' = queue \o Deliveries(w, sigs, result[w])
    /\ pc' = [pc EXCEPT ![w] = "exit"]
    /\ UNCHANGED <<fs, nWorkers, wpath, cancelled, stack, result, visited, appVars,
                   mapVars>>

\* run() has returned and the thread ends
ThreadExit(w) ==
    /\ pc[w] = "exit"
    /\ pc' = [pc EXCEPT ![w] = "done"]
    /\ UNCHANGED <<fs, nWorkers, wpath, cancelled, stack, result, visited, emitted,
                   queue, appVars, mapVars>>

\* ------------------------------------------------------------ TreemapWidget
\* sorted(items, key=total_size, reverse=True): stable, largest first
RECURSIVE InsertDesc(_, _)
InsertDesc(s, x) ==
    IF Len(s) = 0 THEN <<x>>
    ELSE IF total_size(Head(s)) >= total_size(x)
         THEN <<Head(s)>> \o InsertDesc(Tail(s), x)
         ELSE <<x>> \o s

RECURSIVE SortDesc(_)
SortDesc(items) ==
    IF Len(items) = 0 THEN <<>>
    ELSE InsertDesc(SortDesc(SubSeq(items, 1, Len(items) - 1)), items[Len(items)])

\* current_x += item_width (current_y += item_height); den is the scale
Advance_gap(cursor, extent, den) == cursor + extent + spacing * den

Advance(cursor, extent, den) == cursor + extent

\* the rectangles one _draw_treemap call adds to the scene, in order; every
\* coordinate is multiplied by den (the total_size the ratios divide by)
DrawTreemap(items, x, y, width, height, total) ==
    IF Len(items) = 0 \/ width <= 0 \/ height <= 0 THEN <<>>
    ELSE
    LET sorted_items == SortDesc(items)
        use_horizontal == width >= height
        den == IF total > 0 THEN total ELSE 1
        ratio(item) == IF total > 0 THEN total_size(item) ELSE 0
        RECURSIVE loop(_, _, _)
        loop(rest, current_x, current_y) ==
            IF Len(rest) = 0 THEN <<>>
            ELSE LET item == Head(rest)
                     item_width == IF use_horizontal THEN width * ratio(item)
                                   ELSE width * den
                     item_height == IF use_horizontal THEN height * den
                                    ELSE height * ratio(item)
                     rect == [node |-> item,
                              x |-> current_x,
                              y |-> current_y,
                              w |-> IF use_horizontal THEN item_width - spacing * den
                                    ELSE item_width,
                              h |-> IF use_horizontal THEN item_height
                                    ELSE item_height - spacing * den,
                              den |-> den,
                              label |-> /\ item_width > labelMinWidth * den
                                        /\ item_height > labelMinHeight * den]
                 IN  <<rect>> \o
                     loop(Tail(rest),
                          IF use_horizontal THEN Advance(current_x, item_width, den)
                          ELSE current_x,
                          IF use_horizontal THEN current_y
                          ELSE Advance(current_y, item_height, den))
    IN  loop(sorted_items, x * den, y * den)

\* the scene display_treemap leaves for folder_info in a widget of size sz
display_treemap(folder_info, sz) ==
    IF folder_info = None THEN <<>>
    ELSE IF total_size(folder_info[1]) = 0 THEN <<>>
    ELSE LET view_width == sz[1] - margin - (padding * 2)
             view_height == sz[2] - margin - (padding * 2)
         IN  IF view_width <= 0 \/ view_height <= 0 THEN <<>>
             ELSE DrawTreemap(folder_info[1].children, padding, padding,
                              view_width, view_height, total_size(folder_info[1]))

\* zoom: FolderInfo(folder_info.path, 0, folder_info.children)
VirtualRoot(folder_info) == FolderInfo(folder_info.path, 0, folder_info.children)

\* every node of a tree (the items of the tree view)
RECURSIVE NodesOf(_)
NodesOf(node) ==
    {node} \cup UNION {NodesOf(node.children[i]) : i \in 1..Len(node.children)}

\* TreemapWidget.resizeEvent
ResizeEvent(sz) ==
    /\ gui = "idle"
    /\ sz # viewSize
    /\ viewSize' = sz
    /\ scene' = IF tm_folder_info # None THEN display_treemap(tm_folder_info, sz)
                ELSE scene
    /\ UNCHANGED <<fs, workerVars, queue, appVars, tm_folder_info>>

\* DiskAnalyzerApp._on_tree_item_clicked on the item of folder_info
OnTreeItemClicked(folder_info) ==
    /\ gui = "idle"
    /\ current_folder # None
    /\ folder_info \in NodesOf(current_folder[1])
    /\ Len(folder_info.children) > 0
    /\ tm_folder_info' = Some(VirtualRoot(folder_info))
    /\ scene' = display_treemap(Some(VirtualRoot(folder_info)), viewSize)
    /\ UNCHANGED <<fs, workerVars, queue, appVars, viewSize>>

\* DiskAnalyzerApp._on_treemap_folder_selected: a rectangle of the scene clicked
OnTreemapFolderSelected(i) ==
    /\ gui = "idle"
    /\ i \in 1..Len(scene)
    /\ Len(scene[i].node.children) > 0
    /\ tm_folder_info' = Some(VirtualRoot(scene[i].node))
    /\ scene' = display_treemap(Some(VirtualRoot(scene[i].node)), viewSize)
    /\ UNCHANGED <<fs, workerVars, queue, appVars, viewSize>>

\* ---------------------------------------------------------- DiskAnalyzerApp
\* _scan_folder from "Create and start worker" on
StartWorker(path) ==
    LET w == nWorkers + 1
    IN  /\ nWorkers' = w
        /\ scanner_worker' = w
        /\ wpath' = [wpath EXCEPT ![w] = path]
        /\ pc' = [pc EXCEPT ![w] = "start"]
        /\ progressVisible' = TRUE
        /\ btnEnabled' = FALSE
        /\ status' = "Scanning..."
        /\ gui' = "idle"
        /\ UNCHANGED <<fs, stack, result, visited, emitted, queue, pending,
                       current_folder, mapVars>>

\* DiskAnalyzerApp._scan_folder(path) up to wait(), or to its end when no
\* worker is running
App_scan_folder(path) ==
    /\ gui = "idle"
    /\ IF scanner_worker # 0 /\ isRunning(scanner_worker)
       THEN /\ cancelled' = [cancelled EXCEPT ![scanner_worker] = TRUE]
            /\ gui' = "waiting"
            /\ pending' = path
            /\ UNCHANGED <<fs, nWorkers, pc, wpath, stack, result, visited, emitted, queue,
                           scanner_worker, current_folder, btnEnabled,
                           progressVisible, status, mapVars>>
       ELSE /\ StartWorker(path)
            /\ UNCHANGED cancelled

\* a _scan_folder call by the caller, while workers remain to be created
Start(path) == nWorkers < MaxSessions /\ App_scan_folder(path)

\* wait() returns and _scan_folder goes on to create and start the worker
WaitReturn ==
    /\ gui = "waiting"
    /\ WaitOver(scanner_worker)
    /\ StartWorker(pending)
    /\ UNCHANGED cancelled

\* DiskAnalyzerApp._on_scan_progress
OnScanProgress ==
    /\ gui = "idle"
    /\ Len(queue) > 0
    /\ Head(queue).sig = "progress"
    /\ queue' = Tail(queue)
    /\ status' = "Scanning path..."
    /\ UNCHANGED <<fs, workerVars, gui, pending, scanner_worker, current_folder,
                   btnEnabled, progressVisible, mapVars>>

\* DiskAnalyzerApp._on_scan_finished, with _display_folder and display_treemap
OnScanFinished ==
    /\ gui = "idle"
    /\ Len(queue) > 0
    /\ Head(queue).sig = "finished"
    /\ queue' = Tail(queue)
    /\ current_folder' = Head(queue).arg
    /\ tm_folder_info' = Head(queue).arg
    /\ scene' = display_treemap(Head(queue).arg, viewSize)
    /\ progressVisible' = FALSE
    /\ btnEnabled' = TRUE
    /\ status' = "Scan complete"
    /\ UNCHANGED <<fs, workerVars, gui, pending, scanner_worker, viewSize>>

\* DiskAnalyzerApp._on_scan_error
OnScanError ==
    /\ gui = "idle"
    /\ Len(queue) > 0
    /\ Head(queue).sig = "error"
    /\ queue' = Tail(queue)
    /\ status' = "Error"
    /\ progressVisible' = FALSE
    /\ btnEnabled' = TRUE
    /\ UNCHANGED <<fs, workerVars, gui, pending, scanner_worker, current_folder,
                   mapVars>>

\* ----------------------------------------------------------- specifications
DefaultSize == <<144, 54>>

InitWith(sizes) ==
    /\ fs \in FileSystems
    /\ nWorkers = 0
    /\ pc = [w \in Workers |-> "none"]
    /\ wpath = [w \in Workers |-> MissingPath]
    /\ cancelled = [w \in Workers |-> FALSE]
    /\ stack = [w \in Workers |-> <<>>]
    /\ result = [w \in Workers |-> None]
    /\ visited = [w \in Workers |-> {}]
    /\ emitted = [w \in Workers |-> <<>>]
    /\ queue = <<>>
    /\ gui = "idle"
    /\ pending = MissingPath
    /\ scanner_worker = 0
    /\ current_folder = None
    /\ btnEnabled = TRUE
    /\ progressVisible = FALSE
    /\ status = "Ready"
    /\ viewSize \in sizes
    /\ tm_folder_info = None
    /\ scene = <<>>

Init == InitWith({DefaultSize})

\* scan sessions: starting, superseding, running and reporting
Next ==
    \/ \E path \in {RootPath, MissingPath} : Start(path)
    \/ WaitReturn
    \/ \E w \in Workers : RunProgress(w)
    \/ \E w \in Workers : ScanRoot(w)
    \/ \E w \in Workers : ScanStep(w)
    \/ \E w \in Workers : RunEmit(w)
    \/ \E w \in Workers : ThreadExit(w)
    \/ OnScanProgress
    \/ OnScanFinished
    \/ OnScanError

Spec == Init /\ [][Next]_vars

\* sessions started only by clicking the Select Folder button, which emits
\* clicked only while it is enabled
OnSelectFolder(path) == btnEnabled /\ Start(path)

NextUI ==
    \/ \E path \in {RootPath, MissingPath} : OnSelectFolder(path)
    \/ WaitReturn
    \/ \E w \in Workers : RunProgress(w)
    \/ \E w \in Workers : ScanRoot(w)
    \/ \E w \in Workers : ScanStep(w)
    \/ \E w \in Workers : RunEmit(w)
    \/ \E w \in Workers : ThreadExit(w)
    \/ OnScanProgress
    \/ OnScanFinished
    \/ OnScanError

SpecUI == Init /\ [][NextUI]_vars

\* one scan, then the treemap: resizing and zooming
InitLayout == InitWith(WidgetSizes)

NextLayout ==
    \/ nWorkers = 0 /\ Start(RootPath)
    \/ RunProgress(1)
    \/ ScanRoot(1)
    \/ ScanStep(1)
    \/ RunEmit(1)
    \/ ThreadExit(1)
    \/ OnScanProgress
    \/ OnScanFinished
    \/ \E sz \in WidgetSizes : ResizeEvent(sz)
    \/ \E folder_info \in (IF current_folder = None THEN {} ELSE NodesOf(current_folder[1])) :
          OnTreeItemClicked(folder_info)
    \/ \E i \in 1..Len(scene) : OnTreemapFolderSelected(i)

SpecLayout == InitLayout /\ [][NextLayout]_vars

\* ------------------------------------------------------------------ helpers
IsTerminal(sig) == sig \in {"finished", "error"}
Terminals(w) == SelectSeq(emitted[w], IsTerminal)
Returned(w) == pc[w] \in {"emit", "exit", "done"}
Ended(w) == pc[w] \in {"exit", "done"}

\* sum of the byte sizes of the entries in S
RECURSIVE SumFileSizes(_)
SumFileSizes(S) ==
    IF S = {} THEN 0
    ELSE LET i == CHOOSE j \in S : TRUE IN fs.ent[i].size + SumFileSizes(S \ {i})

\* sum of the own sizes of the nodes in S
RECURSIVE SumNodeSizes(_)
SumNodeSizes(S) ==
    IF S = {} THEN 0
    ELSE LET n == CHOOSE m \in S : TRUE IN n.size + SumNodeSizes(S \ {n})

\* the tree that mirrors the directory structure below p
RECURSIVE Mirror(_)
Mirror(p) ==
    IF p # RootPath /\ fs.ent[p].type = "file"
    THEN FolderInfo(p, fs.ent[p].size, <<>>)
    ELSE LET shown == SelectSeq(Listing(p),
                                LAMBDA i : fs.ent[i].type \in {"file", "dir"})
         IN  FolderInfo(p, 0, [k \in 1..Len(shown) |-> Mirror(shown[k])])

NoAccessErrors == fs.rootOk /\ \A i \in 1..Len(fs.ent) : fs.ent[i].err = "none"

RegularFiles == {i \in 1..Len(fs.ent) : fs.ent[i].type = "file"}

\* ------------------------------------------------------------------- claims

\* C1: every session emits exactly one terminal signal (finished or error,
\* never both, never neither once run() is over), and the terminal signal is
\* the last signal of the session: no progress follows it.
C1_ExactlyOneTerminal ==
    \A w \in Workers :
        /\ Len(Terminals(w)) <= 1
        /\ Ended(w) => Len(Terminals(w)) = 1
        /\ ~Ended(w) => Len(Terminals(w)) = 0
        /\ Len(Terminals(w)) = 1 => IsTerminal(emitted[w][Len(emitted[w])])

C1_Witness ==
    \E v, w \in Workers :
        /\ pc[v] = "done" /\ emitted[v] = <<"progress", "finished">>
        /\ pc[w] = "done" /\ emitted[w] = <<"progress", "error">>

\* C2: no two scanner threads run at the same time, and when a later worker
\* has been created every earlier one has stopped.
C2_OneScannerAtATime ==
    /\ Cardinality({w \in Workers : isRunning(w)}) <= 1
    /\ \A v, w \in Workers : (v < w /\ pc[w] # "none") => ~isRunning(v)

C2_Witness ==
    \E v, w \in Workers :
        /\ v < w /\ cancelled[v] /\ pc[v] = "done" /\ result[v] # None
        /\ isRunning(w)

C4_CancelledTotalNotLarger ==
    \A v, w \in Workers :
        ( /\ Returned(v) /\ result[v] # None
          /\ Returned(w) /\ result[w] # None
          /\ wpath[v] = wpath[w]
          /\ ~cancelled[w] ) =>
            total_size(result[v][1]) <= total_size(result[w][1])

C4_Witness ==
    \E v, w \in Workers :
        /\ cancelled[v] /\ pc[v] = "done" /\ result[v] # None
        /\ ~cancelled[w] /\ pc[w] = "done" /\ result[w] # None
        /\ wpath[v] = wpath[w]
        /\ Len(result[v][1].children) > 0
        /\ total_size(result[v][1]) < total_size(result[w][1])

\* C5: a scan of a root path that does not exist returns no tree and its
\* session ends with error, not finished.
C5_MissingRootFails ==
    \A w \in Workers :
        (Returned(w) /\ wpath[w] = MissingPath) =>
            /\ result[w] = None
            /\ Ended(w) => emitted[w] = <<"progress", "error">>
            /\ \A i \in 1..Len(queue) :
                  queue[i].worker = w => queue[i].sig # "finished"

C5_Witness ==
    \E w \in Workers :
        pc[w] = "done" /\ wpath[w] = MissingPath /\ emitted[w] = <<"progress", "error">>

\* C6 as stated: an uncancelled session on a root that exists but cannot be
\* listed ends with error, not with finished carrying a tree.
C6_UnreadableRootFails ==
    \A w \in Workers :
        (Ended(w) /\ ~cancelled[w] /\ wpath[w] = RootPath /\ ~fs.rootOk) =>
            emitted[w] = <<"progress", "error">>

\* C7: an uncancelled scan of a file system without access errors returns
\* the tree that mirrors the directory structure (directories of size 0 with
\* one child per file or subdirectory in listing order, files as leaves of
\* their byte size), so the root total is the sum of all file sizes.
C7_TreeMirrorsStructure ==
    \A w \in Workers :
        ( /\ Returned(w) /\ ~cancelled[w]
          /\ wpath[w] = RootPath /\ NoAccessErrors ) =>
            /\ result[w] = Some(Mirror(RootPath))
            /\ total_size(result[w][1]) = SumFileSizes(RegularFiles)

C7_Witness ==
    \E w \in Workers :
        /\ Returned(w) /\ ~cancelled[w] /\ wpath[w] = RootPath /\ NoAccessErrors
        /\ result[w] # None
        /\ Len(result[w][1].children) = 2
        /\ result[w][1].children[1] = FolderInfo(1, 3, <<>>)
        /\ result[w][1].children[2] = FolderInfo(2, 0, <<>>)
        /\ fs.ent[2].type = "dir"
        /\ total_size(result[w][1]) = 3

\* C8 as stated: in the tree of an uncancelled scan, every subdirectory that
\* _scan_folder was called on and whose listing failed appears among the
\* children of its parent's node as a childless node of size 0.
C8_UnlistableSubdirKept ==
    \A w \in Workers :
        (Returned(w) /\ ~cancelled[w] /\ wpath[w] = RootPath /\ fs.rootOk) =>
            /\ result[w] # None
            /\ \A i \in visited[w] \ {RootPath} :
                  (fs.ent[i].type = "dir" /\ fs.ent[i].err = "list") =>
                      \E n \in NodesOf(result[w][1]) :
                          /\ n.path = fs.ent[i].parent
                          /\ \E k \in 1..Len(n.children) :
                                n.children[k] = FolderInfo(i, 0, <<>>)

\* every FolderInfo tree held anywhere in the state
AllTrees ==
    {result[w][1] : w \in {v \in Workers : result[v] # None}}
    \cup {queue[i].arg[1] : i \in {j \in 1..Len(queue) : queue[j].arg # None}}
    \cup {current_folder[i] : i \in 1..Len(current_folder)}
    \cup {tm_folder_info[i] : i \in 1..Len(tm_folder_info)}
    \cup {scene[i].node : i \in 1..Len(scene)}

RECURSIVE SumChildTotals(_)
SumChildTotals(children) ==
    IF Len(children) = 0 THEN 0
    ELSE total_size(Head(children)) + SumChildTotals(Tail(children))

\* C9: for every node n of every tree, total_size(n) is n's own size plus the
\* total_size of each child; a leaf's total is its own size, an empty root's
\* total is 0, no total is negative, and the total is the sum of the own
\* sizes of all nodes of the subtree.
C9_TotalSizeIsOwnPlusChildren ==
    \A t \in AllTrees : \A n \in NodesOf(t) :
        /\ total_size(n) = n.size + SumChildTotals(n.children)
        /\ Len(n.children) = 0 => total_size(n) = n.size
        /\ (Len(n.children) = 0 /\ n.size = 0) => total_size(n) = 0
        /\ total_size(n) >= 0
        /\ total_size(n) = SumNodeSizes(NodesOf(n))

C9_Witness ==
    \E t \in AllTrees :
        \E i \in 1..Len(t.children) : \E j \in 1..Len(t.children[i].children) :
            /\ t.children[i].children[j].size > 0
            /\ Len(t.children[i].children[j].children) = 0
            /\ total_size(t) = t.children[i].children[j].size
            /\ total_size(t.children[i]) = total_size(t)

\* sum of the totals of the items whose index is in S
RECURSIVE SumItemTotals(_, _)
SumItemTotals(items, S) ==
    IF S = {} THEN 0
    ELSE LET i == CHOOSE j \in S : TRUE
         IN  total_size(items[i]) + SumItemTotals(items, S \ {i})

Max(a, b) == IF a >= b THEN a ELSE b

\* C10: the rectangles of one layout call (positive bounds, children whose
\* totals sum to the total): each spans the full cross-axis extent of the
\* bounds; the rectangle of an item starts, on the slice axis, at the origin
\* plus the proportional extents of the items sorted before it (larger total,
\* or equal total and discovered earlier) and is as long as the item's
\* proportional extent minus the spacing; no two rectangles overlap and none
\* reaches past the bounds.  Coordinates are compared multiplied by the total.
C10_SlicesTileTheBounds ==
    LET node == tm_folder_info[1]
        items == node.children
        T == total_size(node)
        W == viewSize[1] - margin - (padding * 2)
        H == viewSize[2] - margin - (padding * 2)
        horiz == W >= H
        extent == IF horiz THEN W ELSE H
        cross == IF horiz THEN H ELSE W
        start(r) == IF horiz THEN r.x ELSE r.y
        len(r) == IF horiz THEN r.w ELSE r.h
        cstart(r) == IF horiz THEN r.y ELSE r.x
        clen(r) == IF horiz THEN r.h ELSE r.w
        Before(i) == {j \in 1..Len(items) :
                        \/ total_size(items[j]) > total_size(items[i])
                        \/ total_size(items[j]) = total_size(items[i]) /\ j < i}
    IN  ( /\ tm_folder_info # None
          /\ Len(scene) > 0
          /\ W > 0 /\ H > 0
          /\ SumItemTotals(items, 1..Len(items)) = T ) =>
            /\ Len(scene) = Len(items)
            /\ \A i \in 1..Len(items) :
                  LET r == scene[Cardinality(Before(i)) + 1]
                  IN  /\ r.node = items[i]
                      /\ r.den = T
                      /\ cstart(r) = padding * T
                      /\ clen(r) = cross * T
                      /\ start(r) = padding * T + extent * SumItemTotals(items, Before(i))
                      /\ len(r) = extent * total_size(items[i]) - spacing * T
                      /\ start(r) >= padding * T
                      /\ start(r) + Max(len(r), 0) <= (padding + extent) * T
            /\ \A k, l \in 1..Len(scene) :
                  k < l => start(scene[k]) + Max(len(scene[k]), 0) <= start(scene[l])

\* totals 1 and 3 (discovered in that order) laid out in 100 x 10: the larger
\* first, 75 - 5 wide at x = 20, then 25 - 5 wide at x = 95, both 10 high
C10_Witness ==
    /\ viewSize = <<144, 54>>
    /\ tm_folder_info # None
    /\ Len(tm_folder_info[1].children) = 2
    /\ total_size(tm_folder_info[1].children[1]) = 1
    /\ total_size(tm_folder_info[1].children[2]) = 3
    /\ Len(scene) = 2
    /\ scene[1].node = tm_folder_info[1].children[2]
    /\ scene[1].den = 4 /\ scene[2].den = 4
    /\ scene[1].x = 20 * 4 /\ scene[1].w = 70 * 4
    /\ scene[2].x = 95 * 4 /\ scene[2].w = 20 * 4
    /\ scene[1].y = 20 * 4 /\ scene[1].h = 10 * 4
    /\ scene[2].y = 20 * 4 /\ scene[2].h = 10 * 4

\* an entry the scanner can read: a regular file whose stat() succeeds, or a
\* directory (listable or not, it yields a node)
Readable(i) ==
    \/ fs.ent[i].type = "file" /\ fs.ent[i].err = "none"
    \/ fs.ent[i].type = "dir" /\ fs.ent[i].err # "type"

\* C11 as stated: an error on one entry of a directory omits at most that
\* entry.  In the tree of an uncancelled scan, every directory whose listing
\* was walked has a node, and every readable entry of it is among that node's
\* children, whatever errors its siblings raise.
C11_EntryErrorOmitsOnlyThatEntry ==
    \A w \in Workers :
        (Returned(w) /\ ~cancelled[w] /\ wpath[w] = RootPath /\ fs.rootOk) =>
            /\ result[w] # None
            /\ \A p \in {q \in visited[w] : Listable(q)} :
                  \E n \in NodesOf(result[w][1]) :
                      /\ n.path = p
                      /\ \A i \in 1..Len(fs.ent) :
                            (fs.ent[i].parent = p /\ Readable(i)) =>
                                \E k \in 1..Len(n.children) : n.children[k].path = i

\* a session has been superseded: stop() was called on a worker that was
\* still running, wait() returned and a later worker is the current one
Superseded == \E v \in Workers : cancelled[v] /\ v < scanner_worker

\* the step handles the terminal signal at the head of the queue
HandlesTerminal ==
    /\ gui = "idle"
    /\ Len(queue) > 0
    /\ IsTerminal(Head(queue).sig)
    /\ queue' = Tail(queue)

\* C12 as stated: once a session has been superseded, every terminal signal
\* the caller handles belongs to the current worker; the finished/error of a
\* superseded worker is never handled after the new worker was started (so it
\* cannot install the old tree or re-enable the button while the new scan
\* runs).
C12_NoStaleTerminalHandled ==
    [][(Superseded /\ HandlesTerminal) => Head(queue).worker = scanner_worker]_vars

====
